---- MODULE Spec2Model ----
(***************************************************************************)
(* Browser-side code of the QR-ordering application: the Cart module       *)
(* (src/unnamed/part_000) over localStorage and the DOM, and the offline    *)
(* cache and the staff page's live updates                                 *)
(* (src/app/static/service-worker.js).                                     *)
(*                                                                         *)
(* JavaScript values are tagged records so that numbers, NaN, null and     *)
(* strings stay distinct: [t, v, s] with t in "num", "nan", "null", "str". *)
(* A string is a sequence of characters; a storage key is a sequence of    *)
(* its pieces.                                                             *)
(***************************************************************************)
EXTENDS Integers, Sequences, FiniteSets, TLC

VARIABLES
    key,            \* Cart's module-level `key` (NoKey until init runs)
    store,          \* localStorage: storage key -> stored value
    present,        \* ids of the DOM elements the page has
    cartCountText,  \* #cartCount.textContent
    cartTotalText,  \* #cartTotal.textContent
    sumTotalText,   \* #sumTotal.textContent
    emptyDisplay,   \* #cartEmpty.style.display
    listDisplay,    \* #cartList.style.display
    rows,           \* children of #cartList: the line each row was built from
    last,           \* history: the last call, its arguments and its outcome
    cleared,        \* history: the carts cleared and not added to since
    pair,           \* history: the (tableToken, customerId) of the last init
    persisted,      \* history: the lines each pair's page last left in storage
    cacheStore,     \* the URLs held by the cache named CACHE
    installPc,      \* where the install listener's promise chain stands
    fetched,        \* the assets cache.addAll has fetched so far
    skipWaiting,    \* self.skipWaiting() has been called
    claimed,        \* the activate listener has called clients.claim()
    reqs,           \* the fetch events: request, handler position, response
    elems,          \* ids of the elements of the staff page
    badge,          \* order -> textContent and className of #pay-{order}
    statusEl,       \* order -> textContent of #order-status-{order}
    btn,            \* order -> the state of #btn-pay-{order}
    calls,          \* order -> the confirmPayment calls awaiting the server
    alertText,      \* the message of the last alert ("" before any)
    reloaded,       \* location.reload() has been called: the page is going away
    ev,             \* history: the last event of the staff page
    hist            \* history: per order, what the page showed when a call began

cartVars == <<key, store, present, cartCountText, cartTotalText, sumTotalText,
              emptyDisplay, listDisplay, rows, last, cleared, pair, persisted>>

workerVars == <<cacheStore, installPc, fetched, skipWaiting, claimed, reqs>>

staffVars == <<elems, badge, statusEl, btn, calls, alertText, reloaded, ev, hist>>

vars == <<cartVars, workerVars, staffVars>>

----------------------------------------------------------------------------
(* Bounds and program constants *)

\* add() is offered only while the line's quantity is below this cap
MaxQty == 2

\* (note || "").slice(0, 300)
NoteMax == 300

----------------------------------------------------------------------------
(* JavaScript values *)

Num(n) == [t |-> "num", v |-> n, s |-> <<>>]
NaN == [t |-> "nan", v |-> 0, s |-> <<>>]
JsNull == [t |-> "null", v |-> 0, s |-> <<>>]
Str(chars) == [t |-> "str", v |-> 0, s |-> chars]

\* a string of n characters whose characters vary with the position
Filler(n) == [i \in 1..n |-> IF i % 3 = 0 THEN "x" ELSE IF i % 3 = 1 THEN "y" ELSE "z"]

Digits == <<"0", "1", "2", "3", "4", "5", "6", "7", "8", "9">>
IsDigit(c) == \E d \in 1..10 : Digits[d] = c
DigitVal(c) == (CHOOSE d \in 1..10 : Digits[d] = c) - 1

\* JS truthiness of a value
Truthy(x) ==
    CASE x.t = "num" -> x.v # 0
      [] x.t = "nan" -> FALSE
      [] x.t = "null" -> FALSE
      [] x.t = "str" -> Len(x.s) > 0

\* String(n) for an integer n
RECURSIVE NatToString(_)
NatToString(n) ==
    IF n < 10 THEN <<Digits[n + 1]>>
    ELSE NatToString(n \div 10) \o <<Digits[(n % 10) + 1]>>

IntToString(n) == IF n < 0 THEN <<"-">> \o NatToString(-n) ELSE NatToString(n)

\* n.toFixed(2) for an integer n
ToFixed2(n) == IntToString(n) \o <<".", "0", "0">>

\* the value of the leading run of decimal digits of chars, given the value so far
RECURSIVE DigitRun(_, _)
DigitRun(chars, acc) ==
    IF chars = <<>> \/ ~IsDigit(Head(chars)) THEN acc
    ELSE DigitRun(Tail(chars), acc * 10 + DigitVal(Head(chars)))

RECURSIVE SkipSpaces(_)
SkipSpaces(chars) ==
    IF chars # <<>> /\ Head(chars) = " " THEN SkipSpaces(Tail(chars)) ELSE chars

\* parseInt(string, 10): leading blanks, an optional sign, then digits; NaN without digits
ParseIntStr(chars) ==
    LET t == SkipSpaces(chars)
        neg == t # <<>> /\ Head(t) = "-"
        body == IF t # <<>> /\ Head(t) \in {"-", "+"} THEN Tail(t) ELSE t
    IN IF body = <<>> \/ ~IsDigit(Head(body)) THEN NaN
       ELSE Num(IF neg THEN 0 - DigitRun(body, 0) ELSE DigitRun(body, 0))

\* parseInt(x, 10): x is converted to a string first
ParseInt(x) ==
    CASE x.t = "str" -> ParseIntStr(x.s)
      [] x.t = "num" -> ParseIntStr(IntToString(x.v))
      [] x.t = "nan" -> NaN
      [] x.t = "null" -> NaN

\* Math.max(1, x): NaN if x is NaN
MathMax1(x) == IF x.t = "num" THEN Num(IF x.v > 1 THEN x.v ELSE 1) ELSE NaN

\* Number(x) || 0 for a stored field
NumberOrZero(x) ==
    CASE x.t = "num" -> x.v
      [] x.t = "nan" -> 0
      [] x.t = "null" -> 0

\* an increment that overwrites the quantity instead of adding to it
PlusOneResets(x) == Num(1)

\* x += 1 on a stored number field
PlusOne(x) ==
    CASE x.t = "num" -> Num(x.v + 1)
      [] x.t = "null" -> Num(1)
      [] x.t = "nan" -> NaN

----------------------------------------------------------------------------
(* localStorage and the storage key *)

NoKey == <<>>
NoPair == <<>>

\* a key that leaves the table token out
KeyOfNoTable(tableToken, customerId) ==
    <<"cart", ":">> \o (IF Truthy(customerId) THEN customerId.s ELSE <<"anon">>)

\* key = `cart:${tableToken}:${customerId || "anon"}`
KeyOf(tableToken, customerId) ==
    <<"cart", ":">> \o tableToken.s \o <<":">>
        \o (IF Truthy(customerId) THEN customerId.s ELSE <<"anon">>)

Table1 == Str(<<"T1">>)
Table2 == Str(<<"T2">>)
Customer1 == Str(<<"c1">>)

\* the (tableToken, customerId) pairs pages are opened with
AllPairs == {<<Table1, JsNull>>, <<Table1, Customer1>>, <<Table2, JsNull>>,
             <<Table1, Str(<<>>)>>, <<Table1, Str(<<"anon">>)>>}
AllKeys == {KeyOf(p[1], p[2]) : p \in AllPairs}

\* What localStorage holds under a key: nothing, a string JSON.parse rejects,
\* the JSON text "null", a JSON object, or a JSON array of lines.
Absent == [kind |-> "absent", lines |-> <<>>]
Malformed == [kind |-> "malformed", lines |-> <<>>]
JsonNull == [kind |-> "null", lines |-> <<>>]
JsonObject == [kind |-> "object", lines |-> <<>>]
ArrayOf(lines) == [kind |-> "array", lines |-> lines]

\* JSON.stringify writes NaN as null
StringifyNumber(x) == IF x.t = "nan" THEN JsNull ELSE x

\* JSON.stringify(lines), as the value later parsed back from storage
JSONStringify(lines) ==
    ArrayOf([i \in 1..Len(lines) |->
        [lines[i] EXCEPT !.price = StringifyNumber(@), !.qty = StringifyNumber(@)]])

\* a _load() without the catch: a value that fails to parse yields no array
LoadNoCatch(w) ==
    LET item == w.store[w.key]
    IN CASE item.kind = "absent" -> [kind |-> "array", lines |-> <<>>]
         [] item.kind = "malformed" -> [kind |-> "null", lines |-> <<>>]
         [] item.kind = "null" -> [kind |-> "null", lines |-> <<>>]
         [] item.kind = "object" -> [kind |-> "object", lines |-> <<>>]
         [] item.kind = "array" -> item

\* _load(): JSON.parse(localStorage.getItem(key) || "[]"), [] when parse throws
Load(w) ==
    LET item == w.store[w.key]
    IN CASE item.kind = "absent" -> ArrayOf(<<>>)
         [] item.kind = "malformed" -> ArrayOf(<<>>)
         [] item.kind = "null" -> JsonNull
         [] item.kind = "object" -> JsonObject
         [] item.kind = "array" -> item

\* Array methods exist on arrays only: on null or a plain object the call throws
IsArray(val) == val.kind = "array"

----------------------------------------------------------------------------
(* Outcomes of a call: the world it leaves, whether it threw, what it returned *)

World == [key |-> key, store |-> store, cartCountText |-> cartCountText,
          cartTotalText |-> cartTotalText, sumTotalText |-> sumTotalText,
          emptyDisplay |-> emptyDisplay, rows |-> rows]

Ok(w) == [w |-> w, threw |-> FALSE, retLines |-> <<>>, retNum |-> 0]
Throw(w) == [w |-> w, threw |-> TRUE, retLines |-> <<>>, retNum |-> 0]

\* lines.reduce((s, x) => s + (Number(x.price) || 0) * (Number(x.qty) || 0), 0)
RECURSIVE ReduceTotal(_, _)
ReduceTotal(lines, s) ==
    IF lines = <<>> THEN s
    ELSE ReduceTotal(Tail(lines),
                     s + NumberOrZero(Head(lines).price) * NumberOrZero(Head(lines).qty))

\* a count of the lines instead of their quantities
RECURSIVE ReduceCountLines(_, _)
ReduceCountLines(lines, s) ==
    IF lines = <<>> THEN s ELSE ReduceCountLines(Tail(lines), s + 1)

\* lines.reduce((s, x) => s + (Number(x.qty) || 0), 0)
RECURSIVE ReduceCount(_, _)
ReduceCount(lines, s) ==
    IF lines = <<>> THEN s
    ELSE ReduceCount(Tail(lines), s + NumberOrZero(Head(lines).qty))

total(w) ==
    LET val == Load(w)
    IN IF ~IsArray(val) THEN Throw(w)
       ELSE [Ok(w) EXCEPT !.retNum = ReduceTotal(val.lines, 0)]

count(w) ==
    LET val == Load(w)
    IN IF ~IsArray(val) THEN Throw(w)
       ELSE [Ok(w) EXCEPT !.retNum = ReduceCount(val.lines, 0)]

\* a syncUI that refreshes the count and forgets the total
syncUICountOnly(w) ==
    LET c == "cartCount" \in present
        n == count(w)
    IN IF c /\ n.threw THEN Throw(w)
       ELSE Ok(IF c THEN [w EXCEPT !.cartCountText = IntToString(n.retNum)] ELSE w)

syncUI(w) ==
    LET c == "cartCount" \in present
        t == "cartTotal" \in present
        n == count(w)
        m == total(w)
    IN IF c /\ n.threw THEN Throw(w)
       ELSE LET w1 == IF c THEN [w EXCEPT !.cartCountText = IntToString(n.retNum)] ELSE w
            IN IF t /\ m.threw THEN Throw(w1)
               ELSE Ok(IF t THEN [w1 EXCEPT !.cartTotalText = ToFixed2(m.retNum)] ELSE w1)

init(w, tableToken, customerId) ==
    syncUI([w EXCEPT !.key = KeyOf(tableToken, customerId)])

\* _save(lines)
Save(w, lines) ==
    syncUI([w EXCEPT !.store[w.key] = JSONStringify(lines)])

\* a find that compares against the wrong field and so never matches
FindNever(lines, menu_item_id) == 0

\* lines.find(x => x.menu_item_id === menu_item_id): the first match, 0 for undefined
Find(lines, menu_item_id) ==
    IF \E i \in 1..Len(lines) : lines[i].menu_item_id = menu_item_id
    THEN CHOOSE i \in 1..Len(lines) :
            /\ lines[i].menu_item_id = menu_item_id
            /\ \A j \in 1..(i - 1) : lines[j].menu_item_id # menu_item_id
    ELSE 0

add(w, menu_item_id, name, price) ==
    LET val == Load(w)
        found == Find(val.lines, menu_item_id)
    IN IF ~IsArray(val) THEN Throw(w)
       ELSE IF found # 0
            THEN Save(w, [val.lines EXCEPT ![found].qty = PlusOne(@)])
            ELSE Save(w, Append(val.lines,
                     [menu_item_id |-> menu_item_id, name |-> name, price |-> price,
                      qty |-> Num(1), note |-> <<>>]))

\* a filter that stops at the first line it drops
RECURSIVE FilterStopsAtMatch(_, _)
FilterStopsAtMatch(lines, menu_item_id) ==
    IF lines = <<>> \/ Head(lines).menu_item_id = menu_item_id THEN <<>>
    ELSE <<Head(lines)>> \o FilterStopsAtMatch(Tail(lines), menu_item_id)

\* lines.filter(x => x.menu_item_id !== menu_item_id)
RECURSIVE Filter(_, _)
Filter(lines, menu_item_id) ==
    IF lines = <<>> THEN <<>>
    ELSE IF Head(lines).menu_item_id # menu_item_id
         THEN <<Head(lines)>> \o Filter(Tail(lines), menu_item_id)
         ELSE Filter(Tail(lines), menu_item_id)

remove(w, menu_item_id) ==
    LET val == Load(w)
    IN IF ~IsArray(val) THEN Throw(w)
       ELSE Save(w, Filter(val.lines, menu_item_id))

\* Math.max(1, parseInt(qty || 1, 10))
ClampQty(qty) == MathMax1(ParseInt(IF Truthy(qty) THEN qty ELSE Num(1)))

\* a setQty that saves even when it found no line
setQtyAlwaysSaves(w, menu_item_id, qty) ==
    LET val == Load(w)
        found == Find(val.lines, menu_item_id)
    IN IF ~IsArray(val) THEN Throw(w)
       ELSE IF found = 0 THEN Save(w, val.lines)
       ELSE Save(w, [val.lines EXCEPT ![found].qty = ClampQty(qty)])

setQty(w, menu_item_id, qty) ==
    LET val == Load(w)
        found == Find(val.lines, menu_item_id)
    IN IF ~IsArray(val) THEN Throw(w)
       ELSE IF found = 0 THEN Ok(w)
       ELSE Save(w, [val.lines EXCEPT ![found].qty = ClampQty(qty)])

\* slice with its end one place too far
Slice0OneTooFar(chars, n) == SubSeq(chars, 1, IF Len(chars) < n + 1 THEN Len(chars) ELSE n + 1)

\* s.slice(0, n)
Slice0(chars, n) == SubSeq(chars, 1, IF Len(chars) < n THEN Len(chars) ELSE n)

\* (note || "").slice(0, 300); a truthy note that is no string has no slice
TruncateNote(note) == Slice0(IF Truthy(note) THEN note.s ELSE <<>>, NoteMax)

setNote(w, menu_item_id, note) ==
    LET val == Load(w)
        found == Find(val.lines, menu_item_id)
    IN IF ~IsArray(val) THEN Throw(w)
       ELSE IF found = 0 THEN Ok(w)
       ELSE IF Truthy(note) /\ note.t # "str" THEN Throw(w)
       ELSE Save(w, [val.lines EXCEPT ![found].note = TruncateNote(note)])

\* getLines() returns whatever _load() returns
getLines(w) == [Ok(w) EXCEPT !.retLines = Load(w).lines]

\* a clear that leaves the item in storage
clearKeepsItem(w) == syncUI(w)

clear(w) == syncUI([w EXCEPT !.store[w.key] = Absent])

----------------------------------------------------------------------------
(* Checkout renderer *)

\* a renderer that does not empty the list before it rebuilds the rows
renderCheckoutKeepsRows(w) ==
    LET val == Load(w)
        m == total(w)
        hasSum == "sumTotal" \in present
        w1 == IF hasSum /\ ~m.threw THEN [w EXCEPT !.sumTotalText = ToFixed2(m.retNum)] ELSE w
    IN IF hasSum /\ m.threw THEN Throw(w)
       ELSE IF "cartList" \notin present \/ "cartEmpty" \notin present THEN Ok(w1)
       ELSE IF val.kind = "null" THEN Throw(w1)
       ELSE IF val.lines = <<>> THEN Ok([w1 EXCEPT !.emptyDisplay = ""])
       ELSE Ok([w1 EXCEPT !.emptyDisplay = "none",
                          !.rows = @ \o [i \in 1..Len(val.lines) |-> val.lines[i].menu_item_id]])

renderCheckout(w) ==
    LET val == Load(w)
        m == total(w)
        hasSum == "sumTotal" \in present
        w1 == IF hasSum /\ ~m.threw THEN [w EXCEPT !.sumTotalText = ToFixed2(m.retNum)] ELSE w
        \* list.innerHTML = ""
        w2 == [w1 EXCEPT !.rows = <<>>]
    IN IF hasSum /\ m.threw THEN Throw(w)
       ELSE IF "cartList" \notin present \/ "cartEmpty" \notin present THEN Ok(w1)
       \* lines.length: a TypeError on null, undefined on a plain object
       ELSE IF val.kind = "null" THEN Throw(w2)
       ELSE IF val.lines = <<>> THEN Ok([w2 EXCEPT !.emptyDisplay = ""])
       ELSE Ok([w2 EXCEPT !.emptyDisplay = "none",
                          !.rows = [i \in 1..Len(val.lines) |-> val.lines[i].menu_item_id]])

\* click on a row's [data-del]: remove(line.menu_item_id); renderCheckout()
onDelete(w, menu_item_id) ==
    LET r == remove(w, menu_item_id)
    IN IF r.threw THEN r ELSE renderCheckout(r.w)

\* input on a row's [data-qty]: setQty(line.menu_item_id, e.target.value); renderCheckout()
onQtyInput(w, menu_item_id, value) ==
    LET r == setQty(w, menu_item_id, value)
    IN IF r.threw THEN r ELSE renderCheckout(r.w)

\* blur on a row's [data-qty]: setQty(line.menu_item_id, e.target.value)
onQtyBlur(w, menu_item_id, value) == setQty(w, menu_item_id, value)

\* input on a row's [data-note]: setNote(line.menu_item_id, e.target.value)
onNoteInput(w, menu_item_id, value) == setNote(w, menu_item_id, value)

----------------------------------------------------------------------------
(* Inputs *)

ItemIds == {"A", "B"}

\* (menu_item_id, name, price) triples add() is called with
AddInputs == {<<"A", "Pad Thai", Num(60)>>, <<"A", "Som Tam", NaN>>,
              <<"B", "Tom Yum", Num(45)>>}

QtyInputs == {Str(<<"a", "b", "c">>), Str(<<>>), Str(<<"0">>), Str(<<"-", "5">>),
              Str(<<"2", "x">>), Num(0), JsNull}

NoteInputs == {JsNull, Str(Filler(2)), Str(Filler(NoteMax + 2))}

\* the inputs of the specification of pages opened with several pairs
KeyPairs == {<<Table1, JsNull>>, <<Table1, Str(<<>>)>>, <<Table1, Str(<<"anon">>)>>,
             <<Table2, JsNull>>}
KeyAddInputs == {<<"A", "Pad Thai", Num(60)>>}
KeyPages == {{"cartCount", "cartTotal"}}

\* the inputs of the checkout page's specification
CheckoutAddInputs == {<<"A", "Pad Thai", Num(60)>>, <<"B", "Tom Yum", Num(45)>>}
CheckoutQtyInputs == {Str(<<>>), Str(<<"2">>)}
CheckoutNoteInputs == {Str(Filler(2))}

\* the elements a page has: none, or the counters of the menu page
MenuPages == {{}, {"cartCount", "cartTotal"}}
\* the checkout page, whole or with elements missing
CheckoutPages == {{"cartCount", "cartTotal", "cartEmpty", "cartList", "sumTotal"},
                  {"cartList", "sumTotal"}}

\* what storage can hold under the page's key when the page opens
InitialItems == {Absent, Malformed, JsonNull, JsonObject}

----------------------------------------------------------------------------
(* State machine *)

\* had: the cart held the line the call names (for clear: any line) when called
NoCall == [op |-> "none", id |-> "", name |-> "", price |-> JsNull, qty |-> JsNull,
           note |-> JsNull, had |-> FALSE, threw |-> FALSE, retLines |-> <<>>,
           retNum |-> 0]

\* the current cart holds a line for menu_item_id
Has(menu_item_id) == Find(Load(World).lines, menu_item_id) # 0

Called(op, r) == [NoCall EXCEPT !.op = op, !.threw = r.threw,
                                !.retLines = r.retLines, !.retNum = r.retNum]

\* the variables after a call with outcome r
Becomes(r) ==
    /\ key' = r.w.key
    /\ store' = r.w.store
    /\ cartCountText' = r.w.cartCountText
    /\ cartTotalText' = r.w.cartTotalText
    /\ sumTotalText' = r.w.sumTotalText
    /\ emptyDisplay' = r.w.emptyDisplay
    /\ rows' = r.w.rows
    /\ UNCHANGED <<present, listDisplay, workerVars, staffVars>>

----------------------------------------------------------------------------
(* Offline cache: the service worker *)

\* the fetch events handled side by side
MaxRequests == 2

ASSETS == <<"/static/styles.css", "/static/app.js", "/static/staff.js",
            "/static/manifest.json">>
AssetSet == {ASSETS[i] : i \in 1..Len(ASSETS)}

Methods == {"GET", "POST"}
Urls == {"/static/app.js", "/menu"}

NoRequest == [method |-> "", url |-> "", pc |-> "free", cached |-> FALSE,
              response |-> "none", netFetches |-> 0]

\* the worker before its install event; the cache may be left from an earlier install
WorkerStart ==
    /\ cacheStore \in {{}, AssetSet}
    /\ installPc = "idle"
    /\ fetched = {}
    /\ skipWaiting = FALSE
    /\ claimed = FALSE
    /\ reqs = [i \in 1..MaxRequests |-> NoRequest]

\* no worker is registered for the page
NoWorker ==
    /\ cacheStore = {}
    /\ installPc = "idle"
    /\ fetched = {}
    /\ skipWaiting = FALSE
    /\ claimed = FALSE
    /\ reqs = <<>>

\* install: e.waitUntil(caches.open(CACHE)...)
InstallEvent ==
    /\ installPc = "idle"
    /\ installPc' = "opening"
    /\ UNCHANGED <<cacheStore, fetched, skipWaiting, claimed, reqs, cartVars, staffVars>>

\* caches.open(CACHE) settles: .then(cache => cache.addAll(ASSETS)), or the chain rejects
CacheOpened ==
    /\ installPc = "opening"
    /\ \E ok \in BOOLEAN : installPc' = IF ok THEN "adding" ELSE "failed"
    /\ UNCHANGED <<cacheStore, fetched, skipWaiting, claimed, reqs, cartVars, staffVars>>

\* cache.addAll: one of the assets is fetched, or its fetch fails and addAll rejects
AssetFetched ==
    /\ installPc = "adding"
    /\ \E a \in AssetSet \ fetched, ok \in BOOLEAN :
            IF ok THEN fetched' = fetched \cup {a} /\ installPc' = installPc
            ELSE fetched' = fetched /\ installPc' = "failed"
    /\ UNCHANGED <<cacheStore, skipWaiting, claimed, reqs, cartVars, staffVars>>

\* cache.addAll: every asset fetched, all are put in the cache and addAll resolves
AddAllResolved ==
    /\ installPc = "adding"
    /\ fetched = AssetSet
    /\ cacheStore' = cacheStore \cup AssetSet
    /\ installPc' = "added"
    /\ UNCHANGED <<fetched, skipWaiting, claimed, reqs, cartVars, staffVars>>

\* a chain that does not wait for addAll: .then(cache => { cache.addAll(ASSETS) })
SkipsWhenNoWait(pc) == pc \in {"adding", "added"}

\* .then(() => self.skipWaiting()) runs once the promise before it has resolved
SkipsWhen(pc) == pc = "added"

SkipWaiting ==
    /\ SkipsWhen(installPc)
    /\ ~skipWaiting
    /\ skipWaiting' = TRUE
    /\ installPc' = IF installPc = "added" THEN "done" ELSE installPc
    /\ UNCHANGED <<cacheStore, fetched, claimed, reqs, cartVars, staffVars>>

\* activate: e.waitUntil(self.clients.claim()), once the install succeeded
ActivateEvent ==
    /\ installPc = "done"
    /\ ~claimed
    /\ claimed' = TRUE
    /\ UNCHANGED <<cacheStore, installPc, fetched, skipWaiting, reqs, cartVars, staffVars>>

\* fetch: if (req.method !== "GET") return; e.respondWith(caches.match(req)...)
onFetch(method, url) ==
    [NoRequest EXCEPT !.method = method, !.url = url,
                      !.pc = IF method # "GET" THEN "passed" ELSE "matching"]

FetchEvent ==
    /\ claimed
    /\ \E i \in 1..MaxRequests, m \in Methods, u \in Urls :
            /\ reqs[i].pc = "free"
            /\ reqs' = [reqs EXCEPT ![i] = onFetch(m, u)]
    /\ UNCHANGED <<cacheStore, installPc, fetched, skipWaiting, claimed, cartVars, staffVars>>

\* a network-first handler: the network is asked whatever the cache holds
afterMatchNetworkFirst(req, hit) ==
    [req EXCEPT !.cached = hit, !.pc = "fetching", !.netFetches = @ + 1]

\* .then(cached => cached || fetch(req)...)
afterMatch(req, hit) ==
    IF hit THEN [req EXCEPT !.cached = TRUE, !.pc = "answered", !.response = "cache"]
    ELSE [req EXCEPT !.cached = FALSE, !.pc = "fetching", !.netFetches = @ + 1]

\* caches.match(req) resolves
MatchResolved ==
    /\ \E i \in 1..Len(reqs) :
            /\ reqs[i].pc = "matching"
            /\ reqs' = [reqs EXCEPT ![i] = afterMatch(@, @.url \in cacheStore)]
    /\ UNCHANGED <<cacheStore, installPc, fetched, skipWaiting, claimed, cartVars, staffVars>>

\* fetch(req) settles: its response, or .catch(() => cached)
afterFetch(req, ok) ==
    [req EXCEPT !.pc = "answered",
                !.response = IF ok THEN "network"
                             ELSE IF req.cached THEN "cache" ELSE "undefined"]

NetworkSettled ==
    /\ \E i \in 1..Len(reqs), ok \in BOOLEAN :
            /\ reqs[i].pc = "fetching"
            /\ reqs' = [reqs EXCEPT ![i] = afterFetch(@, ok)]
    /\ UNCHANGED <<cacheStore, installPc, fetched, skipWaiting, claimed, cartVars, staffVars>>

WorkerNext ==
    \/ InstallEvent
    \/ CacheOpened
    \/ AssetFetched
    \/ AddAllResolved
    \/ SkipWaiting
    \/ ActivateEvent
    \/ FetchEvent
    \/ MatchResolved
    \/ NetworkSettled

----------------------------------------------------------------------------
(* Staff page: live updates over the socket and confirmPayment *)

\* the confirmPayment calls for one order that may await the server at once
MaxCalls == 2

\* the orders listed on the staff page, and those whose payment the staff confirm
Orders == {"o1", "o2"}
ConfirmOrders == {"o1"}

\* `pay-${id}`, `btn-pay-${id}`, `order-status-${id}`
ElemId(prefix, id) == <<prefix, id>>

\* Labels; "Confirming" and "Paid" stand for the button texts the code sets while the
\* request is in flight and after it succeeded, DefaultError for the message thrown
\* when the response has no body, NetworkError for the message of a rejected fetch.
\* alertText holds the error's message, which alert() shows after a fixed prefix.
Confirming == "Confirming"
PaidLabel == "Paid"
DefaultError == "payment confirmation failed"
NetworkError == "Failed to fetch"

\* an empty string stands for a field the message does not carry
NoMsg == [parse |-> "ok", type |-> "", order_id |-> "", payment_status |-> "",
          order_status |-> ""]

Messages ==
    {[NoMsg EXCEPT !.parse = "fail"], [NoMsg EXCEPT !.parse = "null"],
     [NoMsg EXCEPT !.type = "ping"],
     [NoMsg EXCEPT !.type = "new_order"], [NoMsg EXCEPT !.type = "order_created"]}
    \cup {[NoMsg EXCEPT !.type = "payment_update", !.order_id = "o1", !.payment_status = p] :
                p \in {"paid", "unpaid", ""}}
    \cup {[NoMsg EXCEPT !.type = "payment_update", !.order_id = "o2", !.payment_status = p] :
                p \in {"paid", "unpaid"}}
    \cup {[NoMsg EXCEPT !.type = "order_status", !.order_id = "o1", !.order_status = t] :
                t \in {"cooking", ""}}
    \cup {[NoMsg EXCEPT !.type = "order_status", !.order_id = "o2", !.order_status = "cooking"]}

Staff == [badge |-> badge, statusEl |-> statusEl, btn |-> btn, calls |-> calls,
          alertText |-> alertText, reloaded |-> reloaded]

\* a payment_update that styles every status as a success
onmessageAlwaysSuccess(d, msg) ==
    IF msg.parse # "ok" THEN d
    ELSE IF msg.type \in {"new_order", "order_created"} THEN [d EXCEPT !.reloaded = TRUE]
    ELSE IF msg.type = "payment_update"
         THEN IF ElemId("pay", msg.order_id) \in elems
              THEN [d EXCEPT !.badge[msg.order_id] =
                        [text |-> IF msg.payment_status # "" THEN msg.payment_status
                                  ELSE "unpaid",
                         className |-> "badge text-bg-success"]]
              ELSE d
    ELSE IF msg.type = "order_status"
         THEN IF ElemId("order-status", msg.order_id) \in elems
              THEN [d EXCEPT !.statusEl[msg.order_id] =
                        IF msg.order_status # "" THEN msg.order_status ELSE "new"]
              ELSE d
    ELSE d

\* ws.onmessage: a message that fails to parse, or parses to null, ends in the catch
onmessage(d, msg) ==
    IF msg.parse # "ok" THEN d
    ELSE IF msg.type \in {"new_order", "order_created"} THEN [d EXCEPT !.reloaded = TRUE]
    ELSE IF msg.type = "payment_update"
         THEN IF ElemId("pay", msg.order_id) \in elems
              THEN [d EXCEPT !.badge[msg.order_id] =
                        [text |-> IF msg.payment_status # "" THEN msg.payment_status
                                  ELSE "unpaid",
                         className |-> IF msg.payment_status = "paid"
                                       THEN "badge text-bg-success"
                                       ELSE "badge text-bg-warning"]]
              ELSE d
    ELSE IF msg.type = "order_status"
         THEN IF ElemId("order-status", msg.order_id) \in elems
              THEN [d EXCEPT !.statusEl[msg.order_id] =
                        IF msg.order_status # "" THEN msg.order_status ELSE "new"]
              ELSE d
    ELSE d

\* a confirmPayment that starts the request without disabling the button
confirmStartNoDisable(d, orderId, yes) ==
    IF ~yes THEN d
    ELSE LET d1 == IF ElemId("btn-pay", orderId) \in elems
                   THEN [d EXCEPT !.btn[orderId].oldText = d.btn[orderId].text,
                                  !.btn[orderId].text = Confirming]
                   ELSE d
         IN [d1 EXCEPT !.calls[orderId] = Append(@, "fetching")]

\* confirmPayment up to its first await: confirm(), the button, fetch(...)
confirmStart(d, orderId, yes) ==
    IF ~yes THEN d
    ELSE LET d1 == IF ElemId("btn-pay", orderId) \in elems
                   THEN [d EXCEPT !.btn[orderId].disabled = TRUE,
                                  !.btn[orderId].oldText = d.btn[orderId].text,
                                  !.btn[orderId].text = Confirming]
                   ELSE d
         IN [d1 EXCEPT !.calls[orderId] = Append(@, "fetching")]

RemoveAt(seq, i) == SubSeq(seq, 1, i - 1) \o SubSeq(seq, i + 1, Len(seq))

\* a catch block that alerts and leaves the button as it is
confirmCatchStaysDisabled(d, orderId, i, message) ==
    [d EXCEPT !.alertText = message, !.calls[orderId] = RemoveAt(@, i)]

\* the catch block: alert, then the button is enabled again with its old text
confirmCatch(d, orderId, i, message) ==
    LET d1 == [d EXCEPT !.alertText = message, !.calls[orderId] = RemoveAt(@, i)]
    IN IF ElemId("btn-pay", orderId) \in elems
       THEN [d1 EXCEPT !.btn[orderId].disabled = FALSE,
                       !.btn[orderId].text = IF d.btn[orderId].oldText # ""
                                             THEN d.btn[orderId].oldText
                                             ELSE "confirm payment"]
       ELSE d1

\* after res.ok: the badge and the button become "paid"
confirmPaid(d, orderId, i) ==
    LET d1 == [d EXCEPT !.calls[orderId] = RemoveAt(@, i)]
        d2 == IF ElemId("pay", orderId) \in elems
              THEN [d1 EXCEPT !.badge[orderId] =
                        [text |-> "paid", className |-> "badge text-bg-success"]]
              ELSE d1
    IN IF ElemId("btn-pay", orderId) \in elems
       THEN [d2 EXCEPT !.btn[orderId].text = PaidLabel,
                       !.btn[orderId].classes = (@ \ {"btn-success"}) \cup {"btn-secondary"},
                       !.btn[orderId].disabled = TRUE]
       ELSE d2

\* await fetch(...) settles: "ok" (2xx), "notok" (another status), "neterr" (rejected)
confirmSettled(d, orderId, i, outcome) ==
    CASE outcome = "ok" -> confirmPaid(d, orderId, i)
      [] outcome = "notok" -> [d EXCEPT !.calls[orderId][i] = "reading"]
      [] outcome = "neterr" -> confirmCatch(d, orderId, i, NetworkError)

\* await res.text() settles: throw new Error(t || default), or the read itself
\* rejected
confirmTextRead(d, orderId, i, read, body) ==
    confirmCatch(d, orderId, i, IF ~read THEN NetworkError
                                ELSE IF body # "" THEN body ELSE DefaultError)

\* the staff page as served: unpaid orders, enabled buttons; a page with every
\* element, one whose buttons have no text, one where order o1 has no element
AllElems == {ElemId(p, o) : p \in {"pay", "btn-pay", "order-status"}, o \in Orders}
StaffPages ==
    {[elems |-> AllElems, label |-> "Confirm payment"],
     [elems |-> AllElems, label |-> ""],
     [elems |-> {e \in AllElems : e[2] # "o1"}, label |-> "Confirm payment"]}

NoEvent == [kind |-> "none", order |-> "", msg |-> NoMsg]
NoHist == [label |-> "", badge |-> [text |-> "", className |-> ""], written |-> FALSE,
           confirmed |-> FALSE]

StaffStart ==
    /\ \E page \in StaffPages :
        /\ elems = page.elems
        /\ btn = [o \in Orders |-> [disabled |-> FALSE, text |-> page.label,
                                     oldText |-> "", classes |-> {"btn", "btn-success"}]]
    /\ badge = [o \in Orders |-> [text |-> "unpaid", className |-> "badge text-bg-warning"]]
    /\ statusEl = [o \in Orders |-> "new"]
    /\ calls = [o \in Orders |-> <<>>]
    /\ alertText = ""
    /\ reloaded = FALSE
    /\ ev = NoEvent
    /\ hist = [o \in Orders |-> NoHist]

\* a page without the staff script
NoStaff ==
    /\ elems = {}
    /\ badge = <<>>
    /\ statusEl = <<>>
    /\ btn = <<>>
    /\ calls = <<>>
    /\ alertText = ""
    /\ reloaded = FALSE
    /\ ev = NoEvent
    /\ hist = <<>>

\* the staff page after an event handler left it as d
StaffBecomes(d) ==
    /\ badge' = d.badge
    /\ statusEl' = d.statusEl
    /\ btn' = d.btn
    /\ calls' = d.calls
    /\ alertText' = d.alertText
    /\ reloaded' = d.reloaded
    /\ UNCHANGED <<elems, cartVars, workerVars>>

\* history: the badge of order o has been written
Written(o) == [hist EXCEPT ![o].written = TRUE]

\* an inbound socket message
SocketMessage ==
    \E msg \in Messages :
        /\ ~reloaded
        /\ StaffBecomes(onmessage(Staff, msg))
        /\ ev' = [kind |-> "message", order |-> msg.order_id, msg |-> msg]
        /\ hist' = IF msg.parse = "ok" /\ msg.type = "payment_update"
                   THEN Written(msg.order_id) ELSE hist

\* the user clicks the order's button (or, without a button, another control calls
\* confirmPayment) and answers the confirm() dialog
ConfirmClick ==
    \E o \in ConfirmOrders, yes \in BOOLEAN :
        /\ ~reloaded
        /\ ElemId("btn-pay", o) \in elems => ~btn[o].disabled
        /\ Len(calls[o]) < MaxCalls
        /\ StaffBecomes(confirmStart(Staff, o, yes))
        /\ ev' = [kind |-> IF yes THEN "confirm" ELSE "declined", order |-> o, msg |-> NoMsg]
        /\ hist' = IF yes /\ calls[o] = <<>>
                   THEN [hist EXCEPT ![o].label = btn[o].text, ![o].badge = badge[o],
                                     ![o].written = FALSE]
                   ELSE hist

\* the payment-confirmation request settles
ConfirmSettled ==
    \E o \in ConfirmOrders, outcome \in {"ok", "notok", "neterr"} :
        \E i \in 1..Len(calls[o]) :
            /\ ~reloaded
            /\ calls[o][i] = "fetching"
            /\ StaffBecomes(confirmSettled(Staff, o, i, outcome))
            /\ ev' = [kind |-> CASE outcome = "ok" -> "paid"
                                 [] outcome = "notok" -> "notok"
                                 [] outcome = "neterr" -> "failed",
                      order |-> o, msg |-> NoMsg]
            /\ hist' = IF outcome = "ok"
                       THEN [hist EXCEPT ![o].written = TRUE, ![o].confirmed = TRUE]
                       ELSE hist

\* the body of a non-2xx response has been read
ConfirmTextRead ==
    \E o \in ConfirmOrders, read \in BOOLEAN, body \in {"", "order not found"} :
        \E i \in 1..Len(calls[o]) :
            /\ ~reloaded
            /\ calls[o][i] = "reading"
            /\ StaffBecomes(confirmTextRead(Staff, o, i, read, body))
            /\ ev' = [kind |-> "failed", order |-> o, msg |-> NoMsg]
            /\ UNCHANGED hist

StaffNext ==
    \/ SocketMessage
    \/ ConfirmClick
    \/ ConfirmSettled
    \/ ConfirmTextRead

----------------------------------------------------------------------------
(* Cart state machine *)

\* the history after a call that is no init: the page's pair has left these lines
Remembers(r) ==
    /\ pair' = pair
    /\ persisted' = [persisted EXCEPT ![pair] = r.w.store[r.w.key].lines]

InitWith(pairs, pages) ==
    /\ key = NoKey
    /\ store \in [AllKeys -> InitialItems]
    /\ \A k \in AllKeys : k \notin {KeyOf(p[1], p[2]) : p \in pairs} => store[k] = Absent
    /\ present \in pages
    /\ cartCountText = <<>>
    /\ cartTotalText = <<>>
    /\ sumTotalText = <<>>
    /\ emptyDisplay \in (IF "cartEmpty" \in present THEN {"", "none"} ELSE {""})
    /\ listDisplay \in (IF "cartList" \in present THEN {"", "none"} ELSE {""})
    /\ rows = <<>>
    /\ last = NoCall
    /\ cleared = {}
    /\ pair = NoPair
    /\ persisted = [p \in AllPairs |-> <<>>]
    /\ NoWorker
    /\ NoStaff

\* Cart.init(tableToken, customerId) on page load
PageInit(pairs) ==
    \E p \in pairs :
        LET r == init(World, p[1], p[2])
        IN /\ Becomes(r)
           /\ last' = Called("init", r)
           /\ pair' = p
           /\ UNCHANGED <<cleared, persisted>>

\* the quantity of the line add() would increment is below the cap
BelowCap(menu_item_id) ==
    LET val == Load(World)
        found == Find(val.lines, menu_item_id)
    IN found # 0 /\ val.lines[found].qty.t = "num" => val.lines[found].qty.v < MaxQty

Add(inputs) ==
    \E a \in inputs :
        LET r == add(World, a[1], a[2], a[3])
        IN /\ key # NoKey
           /\ BelowCap(a[1])
           /\ Becomes(r)
           /\ Remembers(r)
           /\ last' = [Called("add", r) EXCEPT !.id = a[1], !.name = a[2], !.price = a[3],
                                                 !.had = Has(a[1])]
           /\ cleared' = IF r.threw THEN cleared ELSE {c \in cleared : c.key # key}

Remove ==
    \E id \in ItemIds :
        LET r == remove(World, id)
        IN /\ key # NoKey
           /\ Becomes(r)
           /\ Remembers(r)
           /\ last' = [Called("remove", r) EXCEPT !.id = id, !.had = Has(id)]
           /\ UNCHANGED cleared

SetQty(inputs) ==
    \E id \in ItemIds, q \in inputs :
        LET r == setQty(World, id, q)
        IN /\ key # NoKey
           /\ Becomes(r)
           /\ Remembers(r)
           /\ last' = [Called("setQty", r) EXCEPT !.id = id, !.qty = q, !.had = Has(id)]
           /\ UNCHANGED cleared

SetNote(inputs) ==
    \E id \in ItemIds, n \in inputs :
        LET r == setNote(World, id, n)
        IN /\ key # NoKey
           /\ Becomes(r)
           /\ Remembers(r)
           /\ last' = [Called("setNote", r) EXCEPT !.id = id, !.note = n, !.had = Has(id)]
           /\ UNCHANGED cleared

GetLines ==
    LET r == getLines(World)
    IN /\ key # NoKey
       /\ Becomes(r)
       /\ Remembers(r)
       /\ last' = Called("getLines", r)
       /\ UNCHANGED cleared

Clear ==
    LET r == clear(World)
    IN /\ key # NoKey
       /\ Becomes(r)
       /\ Remembers(r)
       /\ last' = [Called("clear", r) EXCEPT !.had = Load(World).lines # <<>>]
       /\ cleared' = {c \in cleared : c.key # key}
                        \cup {[key |-> key, hadLines |-> Load(World).lines # <<>>]}

Total ==
    LET r == total(World)
    IN /\ key # NoKey
       /\ Becomes(r)
       /\ Remembers(r)
       /\ last' = Called("total", r)
       /\ UNCHANGED cleared

Count ==
    LET r == count(World)
    IN /\ key # NoKey
       /\ Becomes(r)
       /\ Remembers(r)
       /\ last' = Called("count", r)
       /\ UNCHANGED cleared

RenderCheckout ==
    LET r == renderCheckout(World)
    IN /\ key # NoKey
       /\ Becomes(r)
       /\ Remembers(r)
       /\ last' = Called("renderCheckout", r)
       /\ UNCHANGED cleared

RowDelete ==
    \E i \in 1..Len(rows) :
        LET r == onDelete(World, rows[i])
        IN /\ Becomes(r)
           /\ Remembers(r)
           /\ last' = [Called("onDelete", r) EXCEPT !.id = rows[i], !.had = Has(rows[i])]
           /\ UNCHANGED cleared

RowQtyInput(inputs) ==
    \E i \in 1..Len(rows), q \in inputs :
        LET r == onQtyInput(World, rows[i], q)
        IN /\ Becomes(r)
           /\ Remembers(r)
           /\ last' = [Called("onQtyInput", r) EXCEPT !.id = rows[i], !.qty = q,
                                                        !.had = Has(rows[i])]
           /\ UNCHANGED cleared

RowQtyBlur(inputs) ==
    \E i \in 1..Len(rows), q \in inputs :
        LET r == onQtyBlur(World, rows[i], q)
        IN /\ Becomes(r)
           /\ Remembers(r)
           /\ last' = [Called("onQtyBlur", r) EXCEPT !.id = rows[i], !.qty = q,
                                                        !.had = Has(rows[i])]
           /\ UNCHANGED cleared

RowNoteInput(inputs) ==
    \E i \in 1..Len(rows), n \in inputs :
        LET r == onNoteInput(World, rows[i], n)
        IN /\ Becomes(r)
           /\ Remembers(r)
           /\ last' = [Called("onNoteInput", r) EXCEPT !.id = rows[i], !.note = n,
                                                         !.had = Has(rows[i])]
           /\ UNCHANGED cleared

\* The cart's interface on a page without the checkout list
MenuPairs == {<<Table1, JsNull>>}

Init == InitWith(MenuPairs, MenuPages)

Next ==
    \/ PageInit(MenuPairs)
    \/ Add(AddInputs)
    \/ Remove
    \/ SetQty(QtyInputs)
    \/ SetNote(NoteInputs)
    \/ GetLines
    \/ Clear
    \/ Total
    \/ Count

Spec == Init /\ [][Next]_vars

\* The checkout page: the renderer and the handlers of its rows
InitCheckout == InitWith(MenuPairs, CheckoutPages)

NextCheckout ==
    \/ PageInit(MenuPairs)
    \/ Add(CheckoutAddInputs)
    \/ Remove
    \/ Clear
    \/ RenderCheckout
    \/ RowDelete
    \/ RowQtyInput(CheckoutQtyInputs)
    \/ RowQtyBlur(CheckoutQtyInputs)
    \/ RowNoteInput(CheckoutNoteInputs)

SpecCheckout == InitCheckout /\ [][NextCheckout]_vars

\* a page on which the cart is not used
NoCart ==
    /\ key = NoKey
    /\ store = [k \in AllKeys |-> Absent]
    /\ present = {}
    /\ cartCountText = <<>>
    /\ cartTotalText = <<>>
    /\ sumTotalText = <<>>
    /\ emptyDisplay = ""
    /\ listDisplay = ""
    /\ rows = <<>>
    /\ last = NoCall
    /\ cleared = {}
    /\ pair = NoPair
    /\ persisted = [p \in AllPairs |-> <<>>]

\* The service worker: install, activate and the fetch events
InitWorker == NoCart /\ WorkerStart /\ NoStaff

SpecWorker == InitWorker /\ [][WorkerNext]_vars

\* The staff page: socket messages and payment confirmations
InitStaff == NoCart /\ NoWorker /\ StaffStart

SpecStaff == InitStaff /\ [][StaffNext]_vars

\* Pages opened one after the other with different (tableToken, customerId) pairs
InitKeys == InitWith(KeyPairs, KeyPages)

NextKeys ==
    \/ PageInit(KeyPairs)
    \/ Add(KeyAddInputs)
    \/ Remove
    \/ Clear
    \/ GetLines

SpecKeys == InitKeys /\ [][NextKeys]_vars

----------------------------------------------------------------------------
(* Properties *)

\* the lines persisted under storage key k (none unless an array is stored)
LinesAt(k) == store[k].lines

\* the persisted line of the current cart for menu_item_id
LineOf(menu_item_id) ==
    LinesAt(key)[CHOOSE i \in 1..Len(LinesAt(key)) : LinesAt(key)[i].menu_item_id = menu_item_id]

InCart(menu_item_id) == \E i \in 1..Len(LinesAt(key)) : LinesAt(key)[i].menu_item_id = menu_item_id

\* C1: after every call of any sequence of add / remove / setQty / setNote from an
\* empty cart, every persisted line's quantity is an integer >= 1.
C1_QuantityAtLeastOne ==
    \A k \in AllKeys : \A i \in 1..Len(LinesAt(k)) :
        LinesAt(k)[i].qty.t = "num" /\ LinesAt(k)[i].qty.v >= 1

\* what setQty is to store for each input: the leading integer if it is above 1, else 1
ExpectedQty(q) == IF q = Str(<<"2", "x">>) THEN 2 ELSE 1

\* C2: setQty on a present line returns normally and leaves that line's quantity at
\* the integer parse of qty clamped to at least 1, which is exactly 1 for every
\* invalid or non-numeric qty ("abc", empty, 0, negative, missing).
C2_SetQtyClamps ==
    last.op = "setQty" /\ last.had =>
        /\ ~last.threw
        /\ InCart(last.id)
        /\ LineOf(last.id).qty = Num(ExpectedQty(last.qty))

\* the first NoteMax characters of the note setNote was given ("" for a missing note)
GivenNote == IF last.note.t = "str" THEN last.note.s ELSE <<>>

\* C3: every persisted note has length <= 300; after setNote on a present line the
\* line's note is exactly the first 300 characters of the note given.
C3_NoteTruncated ==
    /\ \A k \in AllKeys : \A i \in 1..Len(LinesAt(k)) : Len(LinesAt(k)[i].note) <= NoteMax
    /\ last.op = "setNote" /\ last.had =>
        /\ ~last.threw
        /\ InCart(last.id)
        /\ LET stored == LineOf(last.id).note
           IN /\ Len(stored) = (IF Len(GivenNote) > NoteMax THEN NoteMax ELSE Len(GivenNote))
              /\ \A j \in 1..Len(stored) : stored[j] = GivenNote[j]

\* C3 witness: setNote was given more than 300 characters for a present line
C3_Witness ==
    /\ last.op = "setNote" /\ last.had
    /\ Len(GivenNote) > NoteMax
    /\ Len(LineOf(last.id).note) = NoteMax

\* a quantity as a number: a quantity persisted as null counts as 0, as in count()
QtyValue(q) == IF q.t = "num" THEN q.v ELSE 0

\* C4: add for an item_id already in the cart raises that line's quantity by exactly 1
\* (to an integer), keeps its name, price and note whatever name and price are passed,
\* and keeps every other line and the order of the lines.
C4_AddExistingIncrements ==
    [][last'.op = "add" /\ last'.had =>
        LET pre == LinesAt(key)
            post == LinesAt(key)'
        IN /\ ~last'.threw
           /\ Len(post) = Len(pre)
           /\ \A i \in 1..Len(pre) :
                IF pre[i].menu_item_id = last'.id
                THEN /\ post[i].qty.t = "num"
                     /\ post[i].qty.v = QtyValue(pre[i].qty) + 1
                     /\ post[i].menu_item_id = pre[i].menu_item_id
                     /\ post[i].name = pre[i].name
                     /\ post[i].price = pre[i].price
                     /\ post[i].note = pre[i].note
                ELSE post[i] = pre[i]]_vars

\* C4 witness: add was called for a present line with another name and price than the
\* stored ones, in a cart of two lines
C4_Witness ==
    /\ last.op = "add" /\ last.had /\ ~last.threw
    /\ Len(LinesAt(key)) = 2
    /\ LineOf(last.id).name # last.name
    /\ LineOf(last.id).price # last.price
    /\ LineOf(last.id).note # <<>>
    /\ LineOf(last.id).qty = Num(2)

\* no two persisted lines of a cart share a menu_item_id
UniqueIds(k) ==
    \A i, j \in 1..Len(LinesAt(k)) :
        LinesAt(k)[i].menu_item_id = LinesAt(k)[j].menu_item_id => i = j

\* C5: a cart holds at most one line per item_id; add for an absent item_id appends
\* exactly one line (that item, quantity 1, empty note) at the end, and add for a
\* present item_id adds no line.
C5_OneLinePerItem ==
    /\ [](\A k \in AllKeys : UniqueIds(k))
    /\ [][last'.op = "add" /\ ~last'.threw =>
            LET pre == LinesAt(key)
                post == LinesAt(key)'
            IN IF last'.had THEN Len(post) = Len(pre)
               ELSE /\ Len(post) = Len(pre) + 1
                    /\ \A i \in 1..Len(pre) : post[i] = pre[i]
                    /\ post[Len(post)].menu_item_id = last'.id
                    /\ post[Len(post)].name = last'.name
                    /\ post[Len(post)].qty = Num(1)
                    /\ post[Len(post)].note = <<>>]_vars

\* C5 witness: add appended a second line to a cart
C5_Witness ==
    /\ last.op = "add" /\ ~last.had /\ ~last.threw
    /\ Len(LinesAt(key)) = 2
    /\ LinesAt(key)[2].menu_item_id = last.id

\* price x quantity of a persisted line; a missing or invalid number counts as zero
LineAmount(line) ==
    IF line.price.t = "num" /\ line.qty.t = "num" THEN line.price.v * line.qty.v ELSE 0

\* the sum of f over the first n lines
RECURSIVE SumAmounts(_, _)
SumAmounts(lines, n) ==
    IF n = 0 THEN 0 ELSE SumAmounts(lines, n - 1) + LineAmount(lines[n])

RECURSIVE SumQuantities(_, _)
SumQuantities(lines, n) ==
    IF n = 0 THEN 0 ELSE SumQuantities(lines, n - 1) + QtyValue(lines[n].qty)

\* the stored value is one the cart's operations leave behind or read as a cart
HoldsCart(k) == store[k].kind \in {"absent", "malformed", "array"}

\* C6: total() returns the sum of price x quantity over the persisted lines and
\* count() the sum of their quantities (a field persisted as null counts as zero).
C6_TotalAndCount ==
    /\ last.op = "total" /\ HoldsCart(key) =>
            ~last.threw /\ last.retNum = SumAmounts(LinesAt(key), Len(LinesAt(key)))
    /\ last.op = "count" /\ HoldsCart(key) =>
            ~last.threw /\ last.retNum = SumQuantities(LinesAt(key), Len(LinesAt(key)))

\* C6 witness: count() was called on a cart of two lines, one with quantity 2
C6_Witness ==
    /\ last.op = "count" /\ ~last.threw
    /\ Len(LinesAt(key)) = 2
    /\ \E i \in 1..2 : LinesAt(key)[i].qty = Num(2)
    /\ last.retNum = 3

\* the positions of lines whose item is not menu_item_id
Kept(lines, menu_item_id) == {i \in 1..Len(lines) : lines[i].menu_item_id # menu_item_id}

\* the j-th smallest element of a set of positions
Nth(S, j) == CHOOSE i \in S : Cardinality({k \in S : k < i}) = j - 1

C8_ClearedStaysEmpty ==
    /\ \A c \in cleared :
            store[c.key].kind \in {"absent", "array"} /\ LinesAt(c.key) = <<>>
    /\ (\E c \in cleared : c.key = key) =>
            /\ last.op = "getLines" => ~last.threw /\ last.retLines = <<>>
            /\ last.op \in {"total", "count"} => ~last.threw /\ last.retNum = 0

\* C8 witness: getLines() was called on a cart that held lines when it was cleared
C8_Witness ==
    /\ \E c \in cleared : c.key = key /\ c.hadLines
    /\ last.op = "getLines" /\ ~last.threw /\ last.retLines = <<>>

\* the line add() persists for a new item
NewLine == [menu_item_id |-> last.id, name |-> last.name,
            price |-> IF last.price = NaN THEN JsNull ELSE last.price,
            qty |-> Num(1), note |-> <<>>]

\* C9: while the value stored under the cart key fails to parse, getLines() returns
\* the empty sequence without throwing and every operation does what it does on an
\* empty cart.
C9_MalformedIsEmptyCart ==
    /\ [](key # NoKey /\ store[key].kind = "malformed" /\ last.op = "getLines" =>
            ~last.threw /\ last.retLines = <<>>)
    /\ [][key' # NoKey /\ store[key'].kind = "malformed" =>
            /\ ~last'.threw
            /\ last'.op \in {"init", "getLines", "total", "count", "setQty", "setNote"} =>
                    store' = store
            /\ last'.op \in {"total", "count"} => last'.retNum = 0
            /\ last'.op = "getLines" => last'.retLines = <<>>
            /\ last'.op = "init" /\ "cartCount" \in present => cartCountText' = <<"0">>
            /\ last'.op = "add" => store'[key] = [kind |-> "array", lines |-> <<NewLine'>>]
            /\ last'.op = "remove" => store'[key] = [kind |-> "array", lines |-> <<>>]
            /\ last'.op = "clear" => store'[key] = Absent]_vars

\* C9 witness: getLines() returned on a malformed stored value
C9_Witness ==
    /\ key # NoKey /\ store[key].kind = "malformed"
    /\ last.op = "getLines" /\ ~last.threw /\ last.retLines = <<>>

\* the render ran to its end on a page that has the list and the placeholder
Rendered(call) ==
    /\ call.op \in {"renderCheckout", "onDelete", "onQtyInput"}
    /\ ~call.threw
    /\ {"cartList", "cartEmpty"} \subseteq present

\* C10 as stated: on an empty cart the placeholder is shown and the list container
\* hidden; on a non-empty cart the placeholder is hidden and the list has one row per
\* line, in cart order.
C10_EmptyCartHidesList ==
    Rendered(last) /\ store[key].kind = "array" =>
        IF LinesAt(key) = <<>>
        THEN emptyDisplay = "" /\ listDisplay = "none"
        ELSE /\ emptyDisplay = "none"
             /\ rows = [i \in 1..Len(LinesAt(key)) |-> LinesAt(key)[i].menu_item_id]

\* C10 amended: on an empty cart the placeholder is shown and the list container is
\* emptied, its visibility left as it was; on a non-empty cart the placeholder is
\* hidden and the list has one row per line, in cart order.
C10_EmptyCartEmptiesList ==
    [][Rendered(last') /\ HoldsCart(key)' =>
        /\ listDisplay' = listDisplay
        /\ IF LinesAt(key)' = <<>>
           THEN emptyDisplay' = "" /\ rows' = <<>>
           ELSE /\ emptyDisplay' = "none"
                /\ Len(rows') = Len(LinesAt(key)')
                /\ \A i \in 1..Len(rows') : rows'[i] = LinesAt(key)'[i].menu_item_id]_vars

\* C10 witness: deleting the last row rendered the empty cart, the list still displayed
C10_Witness ==
    /\ Rendered(last) /\ last.op = "onDelete" /\ last.had
    /\ store[key].kind = "array" /\ LinesAt(key) = <<>>
    /\ emptyDisplay = "" /\ rows = <<>> /\ listDisplay = ""

\* C15: no cart operation throws, whatever value is stored under the cart key, a
\* JSON value that is no array included.
C15_NoOperationThrows == ~last.threw

\* C16: setQty and setNote on a present line change only that line's quantity (resp.
\* note) and keep every other field, every other line and the order; on an absent
\* item_id they leave storage exactly as it was.
C16_SetQtySetNoteFrame ==
    [][last'.op \in {"setQty", "setNote"} =>
        /\ \A k \in AllKeys \ {key} : store'[k] = store[k]
        /\ ~last'.had => store' = store
        /\ last'.had =>
            LET pre == LinesAt(key)
                post == LinesAt(key)'
            IN /\ Len(post) = Len(pre)
               /\ \A i \in 1..Len(pre) :
                    IF pre[i].menu_item_id # last'.id THEN post[i] = pre[i]
                    ELSE /\ post[i].menu_item_id = pre[i].menu_item_id
                         /\ post[i].name = pre[i].name
                         /\ post[i].price = pre[i].price
                         /\ last'.op = "setQty" => post[i].note = pre[i].note
                         /\ last'.op = "setNote" => post[i].qty = pre[i].qty]_vars

\* C16 witness: setQty named an absent item while the key held a value that fails to
\* parse, and the value is still there
C16_Witness ==
    /\ last.op = "setQty" /\ ~last.had /\ ~last.threw
    /\ store[key].kind = "malformed"

\* C17: after every completed init, add, remove, setQty, setNote or clear, a counter
\* element that exists shows count() (resp. total() with two decimals) of the state
\* persisted under the current key; without the elements the call still completes.
C17_CountersInSync ==
    last.op \in {"init", "add", "remove", "setQty", "setNote", "clear"} =>
        /\ ~last.threw /\ "cartCount" \in present =>
                cartCountText = IntToString(SumQuantities(LinesAt(key), Len(LinesAt(key))))
        /\ ~last.threw /\ "cartTotal" \in present =>
                cartTotalText = IntToString(SumAmounts(LinesAt(key), Len(LinesAt(key))))
                                    \o <<".", "0", "0">>
        /\ present = {} /\ HoldsCart(key) => ~last.threw

\* C17 witness: the counters show 3 items and 165.00 after a setQty
C17_Witness ==
    /\ last.op = "setQty" /\ last.had /\ ~last.threw
    /\ cartCountText = <<"3">>
    /\ cartTotalText = <<"1", "6", "5", ".", "0", "0">>

\* the storage key of a pair: cart:<table_token>:<customer_id, "anon" if missing or empty>
ExpectedKey(p) ==
    <<"cart", ":">> \o p[1].s \o <<":">>
        \o (IF p[2] = JsNull \/ p[2] = Str(<<>>) THEN <<"anon">> ELSE p[2].s)

\* no other pair pages are opened with has the storage key of p
OwnKey(p) == \A q \in KeyPairs \ {p} : ExpectedKey(q) # ExpectedKey(p)

\* C20 as stated: distinct (table_token, customer_id) pairs never share a cart, so an
\* init sees exactly the lines last persisted by a page of the same pair.
C20_PairsNeverShare ==
    last.op = "init" => LinesAt(key) = persisted[pair]

\* C20 amended: init sets the key cart:<table_token>:<customer_id or "anon">; every
\* call reads and writes the value under that key only; an init sees the lines last
\* persisted under its key, which are those of its own pair unless another pair has
\* the same key.
C20_CartsIsolatedByKey ==
    /\ [][/\ last'.op = "init" => key' = ExpectedKey(pair') /\ store' = store
          /\ last'.op # "init" => key' = key
          /\ \A k \in AllKeys \ {key'} : store'[k] = store[k]
          /\ last'.op = "getLines" => last'.retLines = LinesAt(key)]_vars
    /\ [](last.op = "init" /\ OwnKey(pair) => LinesAt(key) = persisted[pair])

\* C20 witness: a page of table T2 is opened again and finds its line, while the cart
\* of table T1 holds another
C20_Witness ==
    /\ last.op = "init" /\ pair = <<Table2, JsNull>>
    /\ persisted[pair] # <<>>
    /\ LinesAt(key) = persisted[pair]
    /\ LinesAt(ExpectedKey(<<Table1, JsNull>>)) # <<>>
    /\ LinesAt(ExpectedKey(<<Table1, JsNull>>)) # LinesAt(key)

\* C19: skipWaiting is requested only after every asset of the list is in the cache;
\* when opening the cache or adding an asset fails, the install fails and
\* skipWaiting is never requested.
C19_SkipWaitingAfterAddAll ==
    /\ [](skipWaiting => AssetSet \subseteq cacheStore /\ fetched = AssetSet)
    /\ [](installPc = "failed" => ~skipWaiting)
    /\ [][installPc = "failed" => installPc' = "failed" /\ ~skipWaiting']_vars

\* C19 witness: skipWaiting was requested after an install into an empty cache
C19_Witness ==
    /\ skipWaiting /\ installPc = "done"
    /\ cacheStore = AssetSet
    /\ ~claimed

\* C11: a GET with a cached entry is answered from the cache without a network fetch;
\* without one the network is fetched once and its response returned, and if that
\* fetch fails the answer is the absent cached entry; other methods are never
\* answered; no fetch event changes the cache.
C11_CacheFirst ==
    /\ [](\A i \in 1..Len(reqs) :
            LET r == reqs[i]
            IN /\ r.method # "GET" /\ r.pc # "free" =>
                    r.pc = "passed" /\ r.response = "none" /\ r.netFetches = 0
               /\ r.pc = "answered" /\ r.cached => r.response = "cache" /\ r.netFetches = 0
               /\ r.pc = "answered" /\ ~r.cached =>
                    r.response \in {"network", "undefined"} /\ r.netFetches = 1
               /\ r.pc = "fetching" => ~r.cached /\ r.netFetches = 1
               /\ r.pc \in {"free", "matching", "passed"} =>
                    r.response = "none" /\ r.netFetches = 0)
    /\ [][\A i \in 1..Len(reqs) :
            /\ reqs[i].pc = "matching" /\ reqs'[i].pc # "matching" =>
                    (reqs'[i].cached <=> reqs[i].url \in cacheStore)
            /\ reqs'[i] # reqs[i] => cacheStore' = cacheStore]_vars

\* C11 witness: one GET answered from the cache, another got the absent entry after
\* its network fetch failed
C11_Witness ==
    \E i, j \in 1..Len(reqs) :
        /\ reqs[i].pc = "answered" /\ reqs[i].response = "cache" /\ reqs[i].netFetches = 0
        /\ reqs[j].pc = "answered" /\ reqs[j].response = "undefined"
        /\ reqs[j].netFetches = 1

----------------------------------------------------------------------------
(* Staff page properties *)

Success == "badge text-bg-success"
Warning == "badge text-bg-warning"

\* the badge a payment_update with this status should leave
BadgeFor(status) ==
    [text |-> IF status = "" THEN "unpaid" ELSE status,
     className |-> IF status = "paid" THEN Success ELSE Warning]

\* C12: a socket message is dispatched by its type and changes nothing else:
\* new_order / order_created reloads and touches no badge; payment_update sets only
\* the badge of its order (text = payment_status or "unpaid", success styling iff
\* "paid"); order_status sets only the status element of its order; unparseable
\* messages and unknown types change nothing.
C12_MessageDispatch ==
    [][ev'.kind = "message" =>
        LET m == ev'.msg
        IN /\ btn' = btn /\ calls' = calls /\ alertText' = alertText /\ elems' = elems
           /\ m.parse # "ok" \/ m.type \notin {"new_order", "order_created",
                                                "payment_update", "order_status"} =>
                badge' = badge /\ statusEl' = statusEl /\ reloaded' = reloaded
           /\ m.parse = "ok" /\ m.type \in {"new_order", "order_created"} =>
                reloaded' /\ badge' = badge /\ statusEl' = statusEl
           /\ m.parse = "ok" /\ m.type = "payment_update" =>
                /\ statusEl' = statusEl /\ reloaded' = reloaded
                /\ \A o \in Orders :
                      badge'[o] = IF o = m.order_id /\ ElemId("pay", o) \in elems
                                  THEN BadgeFor(m.payment_status) ELSE badge[o]
           /\ m.parse = "ok" /\ m.type = "order_status" =>
                /\ badge' = badge /\ reloaded' = reloaded
                /\ \A o \in Orders :
                      statusEl'[o] = IF o = m.order_id /\ ElemId("order-status", o) \in elems
                                     THEN (IF m.order_status = "" THEN "new"
                                           ELSE m.order_status)
                                     ELSE statusEl[o]]_vars

\* C12 witness: a payment_update "unpaid" for order o2 has arrived on a page where
\* o1's badge reads "paid" and o1's status element "cooking"
C12_Witness ==
    /\ ev.kind = "message" /\ ev.msg.type = "payment_update" /\ ev.msg.order_id = "o2"
    /\ ev.msg.payment_status = "unpaid"
    /\ badge["o1"] = BadgeFor("paid") /\ badge["o2"] = BadgeFor("unpaid")
    /\ statusEl["o1"] = "cooking"

\* the badge and the button of order o in the state a successful confirmPayment leaves
PaidBadge(o) == ElemId("pay", o) \in elems => badge[o] = BadgeFor("paid")
PaidButton(o) ==
    ElemId("btn-pay", o) \in elems =>
        /\ btn[o].disabled
        /\ btn[o].text = PaidLabel
        /\ btn[o].classes = {"btn", "btn-secondary"}

\* C13: once confirmPayment(order_id) has succeeded, the order's badge shows "paid"
\* and its button is disabled with the paid label, whatever happens afterwards,
\* socket messages included.
C13_PaidIsTerminal ==
    \A o \in Orders : hist[o].confirmed => PaidBadge(o) /\ PaidButton(o)

\* C13, the part the code keeps: the button never leaves the paid state
C13_PaidButtonIsTerminal ==
    \A o \in Orders : hist[o].confirmed => PaidButton(o)

ErrorMessages == {NetworkError, DefaultError, "order not found"}

\* C14: when the payment-confirmation request fails, the error is shown, the button
\* is enabled again with the label it had before the call, and the badge is exactly
\* as it was before the call.
C14_FailureRestores ==
    [][ev'.kind = "failed" =>
        LET o == ev'.order
        IN /\ alertText' \in ErrorMessages
           /\ ElemId("btn-pay", o) \in elems =>
                ~btn'[o].disabled /\ btn'[o].text = hist[o].label
           /\ ElemId("pay", o) \in elems => badge'[o] = hist[o].badge]_vars

\* C14 as the code has it: when the request fails, the error is shown and the button
\* is enabled again with the label it had before the call, or "confirm payment" if
\* that label was empty; the failing call does not touch any badge, so the order's
\* badge is as it was before the call unless it was written while the request was
\* pending.
C14_FailureReenables ==
    [][ev'.kind = "failed" =>
        LET o == ev'.order
        IN /\ alertText' \in ErrorMessages
           /\ ElemId("btn-pay", o) \in elems =>
                /\ ~btn'[o].disabled
                /\ btn'[o].text = IF hist[o].label = "" THEN "confirm payment"
                                  ELSE hist[o].label
           /\ badge' = badge
           /\ ElemId("pay", o) \in elems /\ ~hist[o].written =>
                badge'[o] = hist[o].badge]_vars

\* C14 witness: a non-2xx response without a body failed the call of a button whose
\* label was empty, after a payment_update changed the badge
C14_Witness ==
    /\ ev.kind = "failed" /\ ev.order = "o1"
    /\ ElemId("btn-pay", "o1") \in elems /\ ElemId("pay", "o1") \in elems
    /\ alertText = DefaultError
    /\ ~btn["o1"].disabled /\ btn["o1"].text = "confirm payment"
    /\ hist["o1"].label = ""
    /\ hist["o1"].written /\ badge["o1"] # hist["o1"].badge

\* C18: while a confirmed confirmPayment(order_id) awaits the server, the order's
\* button (when present) is disabled, so at most one request per order is pending
\* from that button; a disabled button is enabled again only by the failure path.
C18_DisabledWhileInFlight ==
    /\ [](\A o \in Orders :
            ElemId("btn-pay", o) \in elems =>
                /\ calls[o] # <<>> => btn[o].disabled
                /\ Len(calls[o]) <= 1)
    /\ [][\A o \in Orders :
            /\ ElemId("btn-pay", o) \in elems /\ calls[o] = <<>> /\ calls'[o] # <<>> =>
                    btn'[o].disabled
            /\ ElemId("btn-pay", o) \in elems /\ btn[o].disabled /\ ~btn'[o].disabled =>
                    ev'.kind = "failed" /\ ev'.order = o]_vars

\* C18 witness: after a failed call enabled the button again, a second call from it
\* is reading the body of a non-2xx response, the button disabled
C18_Witness ==
    /\ ElemId("btn-pay", "o1") \in elems
    /\ alertText # ""
    /\ calls["o1"] = <<"reading">>
    /\ btn["o1"].disabled /\ btn["o1"].text = Confirming

====
